---- MODULE Spec2Model ----
(***************************************************************************)
(* Authentication and role-based access control of the task manager        *)
(* (task-7 / task-8 clean-architecture variant): password hashing, JWT     *)
(* issuance and validation, the gin middleware chain, and the user         *)
(* usecases (register / login / promote) running against the MongoDB       *)
(* user collection.                                                        *)
(***************************************************************************)
EXTENDS Integers, Sequences, FiniteSets, TLC

(***************************************************************************)
(* Bounds of the model                                                     *)
(***************************************************************************)
\* capacity of the users collection explored by the model
MaxUsers == 2
\* capacity of the users collection when the usecases are called concurrently
MaxRaceUsers == 3
\* number of store calls that may fail (timeout / unavailable) in one run
MaxFaults == 1
\* number of login tokens kept by clients
MaxIssued == 2
\* last instant (in hours) the clock reaches
MaxNow == 24
\* last instant (in hours) the clock reaches when only the JWT service runs
MaxNowJWT == 32
\* hours between two looks at the clock when only the JWT service runs
HoursPerTick == 8

(***************************************************************************)
(* Program constants                                                       *)
(***************************************************************************)
RoleAdmin == "admin"
RoleUser == "user"
\* time.Hour * 24, in hours
TokenLifetime == 24
\* bcrypt's limit on the password length, in bytes
BcryptMaxLen == 72
\* binding:"required,min=6" on UserRequest.Password
MinPasswordLen == 6
StatusOK == 200
StatusCreated == 201
StatusBadRequest == 400
StatusUnauthorized == 401
StatusForbidden == 403
StatusNotFound == 404
StatusConflict == 409
StatusInternalServerError == 500

\* the secret of the running service and a secret of somebody else
JWTSecret == "your-super-secret-jwt-key-change-this-in-production"
OtherSecret == "different-secret"

(***************************************************************************)
(* Values                                                                  *)
(***************************************************************************)
Procs == {1, 2}
Usernames == {"alice", "bob"}
PwA == <<"p", "w", "1", "2", "3", "4">>
PwB == <<"p", "w", "1", "2", "3", "5">>
Passwords == {PwA, PwB}
Salts == {1}

\* the nil interface value of a missing claim / context key
Nil == "<nil>"
\* a missing numeric claim
NoTime == 0 - 1

Min(a, b) == IF a < b THEN a ELSE b

(***************************************************************************)
(* primitive.ObjectID and its Hex() form                                   *)
(***************************************************************************)
HexDigit == <<"0", "1", "2", "3", "4", "5", "6", "7",
              "8", "9", "a", "b", "c", "d", "e", "f">>

\* ObjectID.Hex(): the id written in base 16, two digits per byte
Hex(id) == <<HexDigit[((id \div 16) % 16) + 1], HexDigit[(id % 16) + 1]>>

(***************************************************************************)
(* PasswordService (bcrypt)                                                *)
(***************************************************************************)
NoDigest == [salt |-> 0, key |-> <<>>]

\* bcrypt keys the cipher with the first 72 bytes of the password
BcryptKey(password) == SubSeq(password, 1, Min(Len(password), BcryptMaxLen))

\* HashPassword: GenerateFromPassword refuses passwords longer than 72 bytes
HashPassword(password, salt) ==
    IF Len(password) > BcryptMaxLen
    THEN [err |-> "bcrypt: password length exceeds 72 bytes", digest |-> NoDigest]
    ELSE [err |-> "", digest |-> [salt |-> salt, key |-> BcryptKey(password)]]

\* ComparePassword as it would be if every password matched a well-formed digest
ComparePasswordAcceptsAll(hashedPassword, password) ==
    IF hashedPassword.salt = 0
    THEN "crypto/bcrypt: hashedSecret too short to be a bcrypted password"
    ELSE ""

\* ComparePassword: "" when the password matches the digest, an error otherwise
ComparePassword(hashedPassword, password) ==
    IF hashedPassword.salt = 0
    THEN "crypto/bcrypt: hashedSecret too short to be a bcrypted password"
    ELSE IF hashedPassword.key = BcryptKey(password)
    THEN ""
    ELSE "crypto/bcrypt: hashedPassword is not the hash of the given password"

(***************************************************************************)
(* Domain.User and the users collection                                    *)
(***************************************************************************)
NoUser == [ID |-> 0, Username |-> "", Password |-> NoDigest, Role |-> ""]

IsNoUser(u) == u.ID = 0

RECURSIVE FirstIndex(_, _, _)
\* index of the first document with that username at or after i, 0 if none
FirstIndex(coll, username, i) ==
    IF i > Len(coll) THEN 0
    ELSE IF coll[i].Username = username THEN i
    ELSE FirstIndex(coll, username, i + 1)

\* GetByUsername as it would be if a missing document were no error
GetByUsernameNoError(coll, username, fails) ==
    IF fails THEN [user |-> NoUser, err |-> "store unavailable"]
    ELSE IF FirstIndex(coll, username, 1) = 0
    THEN [user |-> NoUser, err |-> ""]
    ELSE [user |-> coll[FirstIndex(coll, username, 1)], err |-> ""]

\* UserRepository.GetByUsername: FindOne by username
GetByUsername(coll, username, fails) ==
    IF fails THEN [user |-> NoUser, err |-> "store unavailable"]
    ELSE IF FirstIndex(coll, username, 1) = 0
    THEN [user |-> NoUser, err |-> "user not found"]
    ELSE [user |-> coll[FirstIndex(coll, username, 1)], err |-> ""]

\* UserRepository.CountUsers: CountDocuments of the whole collection
CountUsers(coll, fails) ==
    IF fails THEN [count |-> 0, err |-> "store unavailable"]
    ELSE [count |-> Len(coll), err |-> ""]

\* Create as it would be if the collection had a unique index on username
CreateUnique(coll, user, fails) ==
    IF fails THEN [coll |-> coll, user |-> user, err |-> "store unavailable"]
    ELSE IF FirstIndex(coll, user.Username, 1) # 0
    THEN [coll |-> coll, user |-> user, err |-> "duplicate key"]
    ELSE [coll |-> Append(coll, [user EXCEPT !.ID = Len(coll) + 1]),
          user |-> [user EXCEPT !.ID = Len(coll) + 1],
          err |-> ""]

\* UserRepository.Create: a fresh ObjectID, then InsertOne
Create(coll, user, fails) ==
    IF fails THEN [coll |-> coll, user |-> user, err |-> "store unavailable"]
    ELSE [coll |-> Append(coll, [user EXCEPT !.ID = Len(coll) + 1]),
          user |-> [user EXCEPT !.ID = Len(coll) + 1],
          err |-> ""]

\* UpdateByUsername as it would be if the update matched and changed nothing
UpdateByUsernameKeepsRole(coll, username, user, fails) ==
    IF fails THEN [coll |-> coll, err |-> "store unavailable"]
    ELSE IF FirstIndex(coll, username, 1) = 0
    THEN [coll |-> coll, err |-> "user not found"]
    ELSE [coll |-> coll, err |-> ""]

\* UserRepository.UpdateByUsername: UpdateOne sets the role of the first match
UpdateByUsername(coll, username, user, fails) ==
    IF fails THEN [coll |-> coll, err |-> "store unavailable"]
    ELSE IF FirstIndex(coll, username, 1) = 0
    THEN [coll |-> coll, err |-> "user not found"]
    ELSE [coll |-> [coll EXCEPT ![FirstIndex(coll, username, 1)].Role = user.Role],
          err |-> ""]

(***************************************************************************)
(* JWTService (golang-jwt/jwt v5, HS256)                                   *)
(***************************************************************************)
\* algorithms whose method is a *jwt.SigningMethodHMAC
HMACAlgs == {"HS256", "HS384", "HS512"}
\* algorithms jwt.GetSigningMethod knows
RegisteredAlgs == HMACAlgs \cup {"none", "RS256", "ES256"}

NoSig == [alg |-> "", key |-> "", over |-> <<>>]

\* the MAC of a signing string under a key; only the holder of the key makes it
HMACSign(alg, signingString, key) == [alg |-> alg, key |-> key, over |-> signingString]

NoClaims == [user_id |-> <<>>, username |-> Nil, role |-> Nil, exp |-> NoTime, iat |-> NoTime]

\* jwt.NewWithClaims(method, claims).SignedString(key): header.payload.signature
SignedString(alg, claims, key) ==
    <<[alg |-> alg, typ |-> "JWT"], claims,
      HMACSign(alg, <<[alg |-> alg, typ |-> "JWT"], claims>>, key)>>

\* GenerateToken as it would be if it wrote the role admin into every token
GenerateTokenRoleAdmin(user, now, later, secret) ==
    SignedString("HS256",
                 [user_id |-> Hex(user.ID), username |-> user.Username,
                  role |-> RoleAdmin, exp |-> now + TokenLifetime, iat |-> later],
                 secret)

\* GenerateToken as it would be if it wrote the default role into the claims
GenerateTokenRoleUser(user, now, later, secret) ==
    SignedString("HS256",
                 [user_id |-> Hex(user.ID), username |-> user.Username,
                  role |-> RoleUser, exp |-> now + TokenLifetime, iat |-> later],
                 secret)

\* JWTService.GenerateToken: claims of the user, HS256. The clock is read
\* twice: exp is 24 hours after the first reading (now), iat is the second
\* reading (later)
GenerateToken(user, now, later, secret) ==
    SignedString("HS256",
                 [user_id |-> Hex(user.ID), username |-> user.Username,
                  role |-> user.Role, exp |-> now + TokenLifetime, iat |-> later],
                 secret)

\* SecondReading as it would be if a whole day could pass between the calls
SecondReadingNextDay(now) == {now, now + TokenLifetime}

\* what a second time.Now() gives after a first one read now: the same hour,
\* or the next one when the hour turns between the two calls
SecondReading(now) == {now, now + 1}

NoToken == <<>>

\* the keyfunc of ValidateToken: the secret for HMAC methods only
KeyFunc(alg, secret) ==
    IF alg \notin HMACAlgs
    THEN [key |-> "", errs |-> {"ErrSignatureInvalid"}]
    ELSE [key |-> secret, errs |-> {}]

\* MethodVerify as it would be if the MAC were not bound to the key
MethodVerifyIgnoresKey(alg, signingString, sig, key) ==
    IF alg \in HMACAlgs
    THEN IF sig.alg = alg /\ sig.over = signingString
         THEN {} ELSE {"ErrSignatureInvalid"}
    ELSE IF alg = "none"
    THEN {"NoneSignatureTypeDisallowedError"}
    ELSE {"ErrInvalidKeyType"}

\* SigningMethod.Verify with a []byte key: HMAC recomputes the MAC, the none
\* method wants its own magic key and the asymmetric methods a public key
MethodVerify(alg, signingString, sig, key) ==
    IF alg \in HMACAlgs
    THEN IF sig = HMACSign(alg, signingString, key)
         THEN {} ELSE {"ErrSignatureInvalid"}
    ELSE IF alg = "none"
    THEN {"NoneSignatureTypeDisallowedError"}
    ELSE {"ErrInvalidKeyType"}

\* ValidateClaims as it would be if a token were still good at its expiry
ValidateClaimsInclusive(claims, now) ==
    IF claims.exp # NoTime /\ ~(now <= claims.exp)
    THEN {"ErrTokenExpired"} ELSE {}

\* ValidateClaims as it would be if a token were good only until the clock
\* moves past its issuance
ValidateClaimsFreshOnly(claims, now) ==
    IF claims.exp # NoTime /\ ~(now < claims.exp) THEN {"ErrTokenExpired"}
    ELSE IF claims.iat # NoTime /\ claims.iat < now THEN {"ErrTokenUsedBeforeIssued"}
    ELSE {}

\* Validator.Validate of MapClaims: exp, when present, must be after now
ValidateClaims(claims, now) ==
    IF claims.exp # NoTime /\ ~(now < claims.exp)
    THEN {"ErrTokenExpired"} ELSE {}

\* ValidateToken as it would be if the token were parsed without verifying
\* the signature (ParseUnverified, then the claims)
ValidateTokenUnverified(tokenString, now, secret) ==
    IF Len(tokenString) # 3
    THEN [Valid |-> FALSE, Claims |-> NoClaims, errs |-> {"ErrTokenMalformed"}]
    ELSE IF tokenString[1].alg \notin RegisteredAlgs
    THEN [Valid |-> FALSE, Claims |-> tokenString[2], errs |-> {"ErrTokenUnverifiable"}]
    ELSE IF ValidateClaims(tokenString[2], now) # {}
    THEN [Valid |-> FALSE, Claims |-> tokenString[2],
          errs |-> {"ErrTokenInvalidClaims"} \cup ValidateClaims(tokenString[2], now)]
    ELSE [Valid |-> TRUE, Claims |-> tokenString[2], errs |-> {}]

\* JWTService.ValidateToken, jwt.Parse: split, look the method up, run the
\* keyfunc, verify the signature, then validate the claims
ValidateToken(tokenString, now, secret) ==
    IF Len(tokenString) # 3
    THEN [Valid |-> FALSE, Claims |-> NoClaims, errs |-> {"ErrTokenMalformed"}]
    ELSE IF tokenString[1].alg \notin RegisteredAlgs
    THEN [Valid |-> FALSE, Claims |-> tokenString[2], errs |-> {"ErrTokenUnverifiable"}]
    ELSE IF KeyFunc(tokenString[1].alg, secret).errs # {}
    THEN [Valid |-> FALSE, Claims |-> tokenString[2],
          errs |-> {"ErrTokenUnverifiable"} \cup KeyFunc(tokenString[1].alg, secret).errs]
    ELSE IF MethodVerify(tokenString[1].alg, <<tokenString[1], tokenString[2]>>,
                         tokenString[3], KeyFunc(tokenString[1].alg, secret).key) # {}
    THEN [Valid |-> FALSE, Claims |-> tokenString[2],
          errs |-> {"ErrTokenSignatureInvalid"}
                   \cup MethodVerify(tokenString[1].alg,
                                     <<tokenString[1], tokenString[2]>>, tokenString[3],
                                     KeyFunc(tokenString[1].alg, secret).key)]
    ELSE IF ValidateClaims(tokenString[2], now) # {}
    THEN [Valid |-> FALSE, Claims |-> tokenString[2],
          errs |-> {"ErrTokenInvalidClaims"} \cup ValidateClaims(tokenString[2], now)]
    ELSE [Valid |-> TRUE, Claims |-> tokenString[2], errs |-> {}]

\* err.Error() of a failed jwt.Parse
ErrorText(errs) ==
    IF "ErrTokenMalformed" \in errs THEN "token is malformed"
    ELSE IF "ErrTokenUnverifiable" \in errs THEN "token is unverifiable"
    ELSE IF "ErrTokenSignatureInvalid" \in errs THEN "token signature is invalid"
    ELSE IF "ErrTokenExpired" \in errs THEN "token has invalid claims: token is expired"
    ELSE "Token validation failed"

(***************************************************************************)
(* gin.Context and the AuthMiddleware stages                               *)
(***************************************************************************)
NoKeys == [exists |-> FALSE, user_id |-> <<>>, username |-> Nil, role |-> Nil]

NoRet == [user |-> NoUser, token |-> NoToken, err |-> ""]

NoBody == [username |-> "", password |-> <<>>]

\* an idle worker: no request, no usecase call
IdleProc ==
    [pc |-> "idle", route |-> "", header |-> <<>>, body |-> NoBody,
     handlers |-> <<>>, index |-> 0, aborted |-> FALSE, keys |-> NoKeys,
     status |-> 0, error |-> "", written |-> 0,
     ran |-> "", trace |-> <<>>, authAt |-> NoTime,
     op |-> "", user |-> NoUser, ret |-> NoRet,
     existed |-> FALSE, inserted |-> FALSE, wrote |-> FALSE, failed |-> FALSE,
     why |-> ""]

\* c.JSON(status, ErrorResponse{Error: error})
JSON(c, status, error) ==
    [c EXCEPT !.status = status, !.error = error, !.written = @ + 1]

\* Abort as it would be if the chain went on after the response
AbortGoesOn(c) == [c EXCEPT !.index = @ + 1]

\* c.Abort(): no later handler of the chain runs
Abort(c) == [c EXCEPT !.aborted = TRUE, !.pc = "done"]

\* c.Next(): on to the next handler of the chain
CNext(c) == [c EXCEPT !.index = @ + 1]

\* strings.Split(authHeader, " ") of a header given by its fields
SplitHeader(authHeader) == IF authHeader = <<>> THEN <<"">> ELSE authHeader

\* AuthenticateToken as it would be if it took any two-field header,
\* whatever its scheme
AuthenticateTokenAnyScheme(c, now, secret) ==
    IF c.header = <<>>
    THEN Abort(JSON(c, StatusUnauthorized, "Missing Authorization header"))
    ELSE IF Len(SplitHeader(c.header)) # 2
    THEN Abort(JSON(c, StatusUnauthorized,
                    "Authorization header must be in format: Bearer <token>"))
    ELSE IF ValidateToken(SplitHeader(c.header)[2], now, secret).errs # {}
            \/ ~ValidateToken(SplitHeader(c.header)[2], now, secret).Valid
    THEN Abort(JSON([c EXCEPT !.authAt = now], StatusUnauthorized,
                    ErrorText(ValidateToken(SplitHeader(c.header)[2], now, secret).errs)))
    ELSE CNext([c EXCEPT
                  !.authAt = now,
                  !.keys = [exists |-> TRUE,
                            user_id |-> ValidateToken(SplitHeader(c.header)[2], now, secret).Claims.user_id,
                            username |-> ValidateToken(SplitHeader(c.header)[2], now, secret).Claims.username,
                            role |-> ValidateToken(SplitHeader(c.header)[2], now, secret).Claims.role]])

\* AuthMiddleware.AuthenticateToken
AuthenticateToken(c, now, secret) ==
    IF c.header = <<>>
    THEN Abort(JSON(c, StatusUnauthorized, "Missing Authorization header"))
    ELSE IF Len(SplitHeader(c.header)) # 2 \/ SplitHeader(c.header)[1] # "Bearer"
    THEN Abort(JSON(c, StatusUnauthorized,
                    "Authorization header must be in format: Bearer <token>"))
    ELSE IF ValidateToken(SplitHeader(c.header)[2], now, secret).errs # {}
            \/ ~ValidateToken(SplitHeader(c.header)[2], now, secret).Valid
    THEN Abort(JSON([c EXCEPT !.authAt = now], StatusUnauthorized,
                    ErrorText(ValidateToken(SplitHeader(c.header)[2], now, secret).errs)))
    ELSE CNext([c EXCEPT
                  !.authAt = now,
                  !.keys = [exists |-> TRUE,
                            user_id |-> ValidateToken(SplitHeader(c.header)[2], now, secret).Claims.user_id,
                            username |-> ValidateToken(SplitHeader(c.header)[2], now, secret).Claims.username,
                            role |-> ValidateToken(SplitHeader(c.header)[2], now, secret).Claims.role]])

\* RequireAdmin as it would be if it let every known role through
RequireAdminAcceptsUser(c) ==
    IF ~c.keys.exists
    THEN Abort(JSON(c, StatusUnauthorized, "Authentication required"))
    ELSE IF c.keys.role # RoleAdmin /\ c.keys.role # RoleUser
    THEN Abort(JSON(c, StatusForbidden, "Admin privileges required"))
    ELSE CNext(c)

\* RequireAdmin as it would be if it refused every role but user
RequireAdminWantsUser(c) ==
    IF ~c.keys.exists
    THEN Abort(JSON(c, StatusUnauthorized, "Authentication required"))
    ELSE IF c.keys.role # RoleUser
    THEN Abort(JSON(c, StatusForbidden, "Admin privileges required"))
    ELSE CNext(c)

\* AuthMiddleware.RequireAdmin
RequireAdmin(c) ==
    IF ~c.keys.exists
    THEN Abort(JSON(c, StatusUnauthorized, "Authentication required"))
    ELSE IF c.keys.role # RoleAdmin
    THEN Abort(JSON(c, StatusForbidden, "Admin privileges required"))
    ELSE CNext(c)

\* RequireUser as it would be if it did not look whether the role key exists
RequireUserUnchecked(c) ==
    IF c.keys.role # RoleAdmin /\ c.keys.role # RoleUser
    THEN Abort(JSON(c, StatusForbidden, "Valid user role required"))
    ELSE CNext(c)

\* AuthMiddleware.RequireUser
RequireUser(c) ==
    IF ~c.keys.exists
    THEN Abort(JSON(c, StatusUnauthorized, "Authentication required"))
    ELSE IF c.keys.role # RoleAdmin /\ c.keys.role # RoleUser
    THEN Abort(JSON(c, StatusForbidden, "Valid user role required"))
    ELSE CNext(c)

(***************************************************************************)
(* SetupRouter: the routes and their handler chains                        *)
(***************************************************************************)
PublicRoutes == {"POST /api/v1/register", "POST /api/v1/login"}

AdminRoutes ==
    {"GET /api/v1/users", "POST /api/v1/users/promote", "POST /api/v1/tasks",
     "PUT /api/v1/tasks/:id", "DELETE /api/v1/tasks/:id"}

UserRoutes == {"GET /api/v1/tasks", "GET /api/v1/tasks/:id"}

ProfileRoutes == {"GET /api/v1/users/profile"}

Routes == PublicRoutes \cup AdminRoutes \cup UserRoutes \cup ProfileRoutes

\* the controller method a route ends in
RouteHandler(route) ==
    CASE route = "POST /api/v1/register" -> "Register"
      [] route = "POST /api/v1/login" -> "Login"
      [] route = "GET /api/v1/users/profile" -> "GetProfile"
      [] route = "GET /api/v1/users" -> "GetAllUsers"
      [] route = "POST /api/v1/users/promote" -> "PromoteUser"
      [] route = "GET /api/v1/tasks" -> "GetAllTasks"
      [] route = "GET /api/v1/tasks/:id" -> "GetTaskByID"
      [] route = "POST /api/v1/tasks" -> "CreateTask"
      [] route = "PUT /api/v1/tasks/:id" -> "UpdateTask"
      [] route = "DELETE /api/v1/tasks/:id" -> "DeleteTask"

\* RouteChain as it would be if RequireAdmin were left off the promote route
RouteChainOpenPromote(route) ==
    IF route \in PublicRoutes THEN <<RouteHandler(route)>>
    ELSE IF route \in ProfileRoutes \cup {"POST /api/v1/users/promote"}
    THEN <<"AuthenticateToken", RouteHandler(route)>>
    ELSE IF route \in AdminRoutes
    THEN <<"AuthenticateToken", "RequireAdmin", RouteHandler(route)>>
    ELSE <<"AuthenticateToken", "RequireUser", RouteHandler(route)>>

\* RouteChain as it would be if the role stage were registered on the group
\* ahead of AuthenticateToken
RouteChainRoleFirst(route) ==
    IF route \in PublicRoutes THEN <<RouteHandler(route)>>
    ELSE IF route \in ProfileRoutes THEN <<"AuthenticateToken", RouteHandler(route)>>
    ELSE IF route \in AdminRoutes
    THEN <<"RequireAdmin", "AuthenticateToken", RouteHandler(route)>>
    ELSE <<"RequireUser", "AuthenticateToken", RouteHandler(route)>>

\* the handlers gin runs for a route, group middleware first
RouteChain(route) ==
    IF route \in PublicRoutes THEN <<RouteHandler(route)>>
    ELSE IF route \in ProfileRoutes THEN <<"AuthenticateToken", RouteHandler(route)>>
    ELSE IF route \in AdminRoutes
    THEN <<"AuthenticateToken", "RequireAdmin", RouteHandler(route)>>
    ELSE <<"AuthenticateToken", "RequireUser", RouteHandler(route)>>

TaskHandlers == {"GetAllTasks", "GetTaskByID", "CreateTask", "UpdateTask", "DeleteTask"}

(***************************************************************************)
(* UserUsecase                                                             *)
(***************************************************************************)
\* RegisterRole as it would be if the count were compared with one
RegisterRoleOffByOne(userCount) == IF userCount = 1 THEN RoleAdmin ELSE RoleUser

\* RegisterUser: the role of the new user, admin for the first one
RegisterRole(userCount) == IF userCount = 0 THEN RoleAdmin ELSE RoleUser

\* LoginUser as it would be if it passed the error of the lookup on
LoginUserLeaksNotFound(coll, loginReq, now, later, secret, fails) ==
    IF GetByUsername(coll, loginReq.username, fails).err # ""
    THEN [user |-> NoUser, token |-> NoToken,
          err |-> GetByUsername(coll, loginReq.username, fails).err]
    ELSE IF ComparePassword(GetByUsername(coll, loginReq.username, fails).user.Password,
                            loginReq.password) # ""
    THEN [user |-> NoUser, token |-> NoToken, err |-> "invalid credentials"]
    ELSE [user |-> GetByUsername(coll, loginReq.username, fails).user,
          token |-> GenerateToken(GetByUsername(coll, loginReq.username, fails).user,
                                  now, later, secret),
          err |-> ""]

\* LoginUser: lookup, password comparison, token
LoginUser(coll, loginReq, now, later, secret, fails) ==
    IF GetByUsername(coll, loginReq.username, fails).err # ""
    THEN [user |-> NoUser, token |-> NoToken, err |-> "invalid credentials"]
    ELSE IF ComparePassword(GetByUsername(coll, loginReq.username, fails).user.Password,
                            loginReq.password) # ""
    THEN [user |-> NoUser, token |-> NoToken, err |-> "invalid credentials"]
    ELSE [user |-> GetByUsername(coll, loginReq.username, fails).user,
          token |-> GenerateToken(GetByUsername(coll, loginReq.username, fails).user,
                                  now, later, secret),
          err |-> ""]

(***************************************************************************)
(* Controller: binding of the request body and the status of the response  *)
(***************************************************************************)
\* ShouldBindJSON of UserRequest: username required, password of 6 or more
BindUserRequest(body) == body.username # "" /\ Len(body.password) >= MinPasswordLen

\* ShouldBindJSON of LoginRequest: both fields required
BindLoginRequest(body) == body.username # "" /\ Len(body.password) > 0

\* ShouldBindJSON of PromoteRequest: username required
BindPromoteRequest(body) == body.username # ""

\* the status the controller answers a finished usecase call with
ResponseStatus(op, err) ==
    CASE op = "register" ->
           IF err = "" THEN StatusCreated
           ELSE IF err = "username already exists" THEN StatusConflict
           ELSE StatusBadRequest
      [] op = "login" -> IF err = "" THEN StatusOK ELSE StatusUnauthorized
      [] op = "promote" ->
           IF err = "" THEN StatusOK
           ELSE IF err = "user not found" THEN StatusNotFound
           ELSE StatusBadRequest

(***************************************************************************)
(* State                                                                   *)
(***************************************************************************)
VARIABLES
    users,      \* the users collection, in insertion order
    procs,      \* per worker: the request and usecase call it is running
    clock,      \* time.Now(), in hours
    issued,     \* the login tokens clients hold
    faults,     \* store calls that have failed so far
    created,    \* roles of the users made by RegisterUser, in order of success
    probe,      \* the ValidateToken call just made on the JWT service alone
    library     \* the Library value: its Books and Members maps, and the last call

vars == <<users, procs, clock, issued, faults, created, probe, library>>

NoProbe == [token |-> NoToken, at |-> NoTime, secret |-> "",
            Valid |-> FALSE, Claims |-> NoClaims, errs |-> {}]

NoCall == [op |-> "", bookID |-> 0, memberID |-> 0, err |-> ""]

\* NewLibrary: both maps empty. Books maps an id to the book's Status;
\* Members maps an id to the member's BorrowedBooks, each entry the id of the
\* book copied into the list
NewLibrary == [Books |-> <<>>, Members |-> <<>>, call |-> NoCall]

Init ==
    /\ users = <<>>
    /\ procs = [p \in Procs |-> IdleProc]
    /\ clock = 0
    /\ issued = {}
    /\ faults = 0
    /\ created = <<>>
    /\ probe = NoProbe
    /\ library = NewLibrary

\* whether the next store call may time out
FaultChoices == IF faults < MaxFaults THEN {FALSE, TRUE} ELSE {FALSE}

Bump(fails) == IF fails THEN faults + 1 ELSE faults

\* register calls that have not yet reached the insert
Registering == {p \in Procs : procs[p].pc \in {"reg_lookup", "reg_count", "reg_create"}}

(***************************************************************************)
(* UserUsecase.RegisterUser, one action per store call                     *)
(***************************************************************************)
\* GetByUsername and the "username already exists" return; the error of the
\* lookup is dropped by the code
RegisterLookup(p) ==
    /\ procs[p].pc = "reg_lookup"
    /\ \E fails \in FaultChoices :
         /\ procs' = [procs EXCEPT ![p] =
                IF ~IsNoUser(GetByUsername(users, procs[p].body.username, fails).user)
                THEN [@ EXCEPT !.pc = "returned",
                               !.existed = FirstIndex(users, procs[p].body.username, 1) # 0,
                               !.failed = fails,
                               !.ret = [NoRet EXCEPT !.err = "username already exists"]]
                ELSE [@ EXCEPT !.pc = "reg_count",
                               !.existed = FirstIndex(users, procs[p].body.username, 1) # 0,
                               !.failed = fails]]
         /\ faults' = Bump(fails)
    /\ UNCHANGED <<users, clock, issued, created, probe, library>>

\* HashPassword, CountUsers and the choice of the role
RegisterCount(p) ==
    /\ procs[p].pc = "reg_count"
    /\ \E salt \in Salts, fails \in FaultChoices :
         /\ HashPassword(procs[p].body.password, salt).err # "" => ~fails
         /\ procs' = [procs EXCEPT ![p] =
                IF HashPassword(procs[p].body.password, salt).err # ""
                THEN [@ EXCEPT !.pc = "returned",
                               !.ret = [NoRet EXCEPT !.err = "failed to hash password"]]
                ELSE IF CountUsers(users, fails).err # ""
                THEN [@ EXCEPT !.pc = "returned", !.failed = TRUE,
                               !.ret = [NoRet EXCEPT !.err = CountUsers(users, fails).err]]
                ELSE [@ EXCEPT !.pc = "reg_create",
                               !.user = [ID |-> 0,
                                         Username |-> procs[p].body.username,
                                         Password |-> HashPassword(procs[p].body.password, salt).digest,
                                         Role |-> RegisterRole(CountUsers(users, fails).count)]]]
         /\ faults' = Bump(fails)
    /\ UNCHANGED <<users, clock, issued, created, probe, library>>

\* Create and the return of the new user
RegisterCreate(p) ==
    /\ procs[p].pc = "reg_create"
    /\ \E fails \in FaultChoices :
         /\ users' = Create(users, procs[p].user, fails).coll
         /\ procs' = [procs EXCEPT ![p] =
                IF Create(users, procs[p].user, fails).err # ""
                THEN [@ EXCEPT !.pc = "returned", !.user = NoUser, !.failed = TRUE,
                               !.ret = [NoRet EXCEPT !.err = Create(users, procs[p].user, fails).err]]
                ELSE [@ EXCEPT !.pc = "returned", !.user = NoUser, !.inserted = TRUE,
                               !.ret = [NoRet EXCEPT !.user = Create(users, procs[p].user, fails).user]]]
         /\ created' = IF fails THEN created ELSE Append(created, procs[p].user.Role)
         /\ faults' = Bump(fails)
    /\ UNCHANGED <<clock, issued, probe, library>>

(***************************************************************************)
(* UserUsecase.LoginUser: one store call                                   *)
(***************************************************************************)
Login(p) ==
    /\ procs[p].pc = "login"
    /\ \E fails \in FaultChoices, later \in SecondReading(clock) :
         /\ procs' = [procs EXCEPT ![p] =
                [@ EXCEPT !.pc = "returned",
                          !.ret = LoginUser(users, procs[p].body, clock, later,
                                            JWTSecret, fails),
                          !.failed = fails,
                          !.why = IF fails THEN "store error"
                                  ELSE IF FirstIndex(users, procs[p].body.username, 1) = 0
                                  THEN "no such user"
                                  ELSE IF users[FirstIndex(users, procs[p].body.username, 1)].Password.key
                                          # BcryptKey(procs[p].body.password)
                                  THEN "wrong secret"
                                  ELSE "match"]]
         /\ faults' = Bump(fails)
    /\ UNCHANGED <<users, clock, issued, created, probe, library>>

(***************************************************************************)
(* UserUsecase.PromoteUserToAdmin, one action per store call               *)
(***************************************************************************)
\* what there is to find in the collection at the instant of a lookup
LookupFinds(coll, username, fails) ==
    IF fails THEN "store error"
    ELSE IF FirstIndex(coll, username, 1) = 0 THEN "no such user"
    ELSE IF coll[FirstIndex(coll, username, 1)].Role = RoleAdmin THEN "already admin"
    ELSE "promotable"

PromoteLookup(p) ==
    /\ procs[p].pc = "prom_lookup"
    /\ \E fails \in FaultChoices :
         /\ procs' = [procs EXCEPT ![p] =
                IF GetByUsername(users, procs[p].body.username, fails).err # ""
                THEN [@ EXCEPT !.pc = "returned",
                               !.failed = fails,
                               !.why = LookupFinds(users, procs[p].body.username, fails),
                               !.ret = [NoRet EXCEPT !.err =
                                   GetByUsername(users, procs[p].body.username, fails).err]]
                ELSE IF GetByUsername(users, procs[p].body.username, fails).user.Role = RoleAdmin
                THEN [@ EXCEPT !.pc = "returned",
                               !.why = LookupFinds(users, procs[p].body.username, fails),
                               !.ret = [NoRet EXCEPT !.err = "user is already an admin"]]
                ELSE [@ EXCEPT !.pc = "prom_update",
                               !.why = LookupFinds(users, procs[p].body.username, fails),
                               !.user = [GetByUsername(users, procs[p].body.username, fails).user
                                           EXCEPT !.Role = RoleAdmin]]]
         /\ faults' = Bump(fails)
    /\ UNCHANGED <<users, clock, issued, created, probe, library>>

PromoteUpdate(p) ==
    /\ procs[p].pc = "prom_update"
    /\ \E fails \in FaultChoices :
         /\ users' = UpdateByUsername(users, procs[p].body.username, procs[p].user, fails).coll
         /\ procs' = [procs EXCEPT ![p] =
                IF UpdateByUsername(users, procs[p].body.username, procs[p].user, fails).err # ""
                THEN [@ EXCEPT !.pc = "returned", !.user = NoUser, !.failed = fails,
                               !.ret = [NoRet EXCEPT !.err =
                                   UpdateByUsername(users, procs[p].body.username,
                                                    procs[p].user, fails).err]]
                ELSE [@ EXCEPT !.pc = "prom_reread", !.user = NoUser, !.wrote = TRUE]]
         /\ faults' = Bump(fails)
    /\ UNCHANGED <<clock, issued, created, probe, library>>

PromoteReread(p) ==
    /\ procs[p].pc = "prom_reread"
    /\ \E fails \in FaultChoices :
         /\ procs' = [procs EXCEPT ![p] =
                [@ EXCEPT !.pc = "returned",
                          !.failed = fails,
                          !.ret = [NoRet EXCEPT
                                     !.user = GetByUsername(users, procs[p].body.username, fails).user,
                                     !.err = GetByUsername(users, procs[p].body.username, fails).err]]]
         /\ faults' = Bump(fails)
    /\ UNCHANGED <<users, clock, issued, created, probe, library>>

(***************************************************************************)
(* Requests: what clients send                                             *)
(***************************************************************************)
AdminClaims ==
    [user_id |-> Hex(1), username |-> "alice", role |-> RoleAdmin,
     exp |-> NoTime, iat |-> NoTime]

\* an unsigned token that declares the none algorithm
NoneToken == <<[alg |-> "none", typ |-> "JWT"], AdminClaims, NoSig>>

\* a well-formed token signed with a secret that is not the service's
OtherSecretToken == SignedString("HS256", AdminClaims, OtherSecret)

\* an issued token whose role claim was rewritten, signature kept
Tamper(token) == <<token[1], [token[2] EXCEPT !.role = RoleAdmin], token[3]>>

\* the tokens a client can present: those it was issued and those it can make
\* without the service's secret
PresentedTokens(iss) ==
    iss \cup {NoneToken, OtherSecretToken} \cup {Tamper(t) : t \in iss}

\* the Authorization headers tried on a protected route, given by their
\* fields between single spaces; net/http trims the value, so "Bearer "
\* arrives as the one field "Bearer"
Headers(iss) ==
    {<<>>, <<"Bearer">>, <<"Token", NoneToken>>}
        \cup {<<"Bearer", t>> : t \in PresentedTokens(iss)}
        \cup {<<"Token", t>> : t \in iss}
        \cup {<<"bearer", t>> : t \in iss}
        \cup {<<"Bearer", t, "x">> : t \in iss}

\* the JSON bodies tried on a route
Bodies(route) ==
    IF route = "POST /api/v1/register"
    THEN {[username |-> u, password |-> PwA] : u \in Usernames}
             \cup {[username |-> "alice", password |-> <<"p", "w">>]}
    ELSE IF route = "POST /api/v1/login"
    THEN {[username |-> u, password |-> w] : u \in Usernames, w \in Passwords}
    ELSE IF route = "POST /api/v1/users/promote"
    THEN {[username |-> u, password |-> <<>>] : u \in Usernames}
    ELSE {NoBody}

\* the worker that serves HTTP requests one at a time
Workers == {1}

(***************************************************************************)
(* The HTTP layer: gin runs the chain of the route                         *)
(***************************************************************************)
\* the handler gin is about to run for the request of p, "" if none
Current(p) ==
    IF procs[p].pc = "chain" THEN procs[p].handlers[procs[p].index] ELSE ""

\* the handler gin has just run is noted in the request's trace
Served(c, handler) == [c EXCEPT !.trace = Append(@, handler)]

StartRequest(p) ==
    /\ procs[p].pc = "idle"
    /\ \E route \in Routes :
         \E header \in (IF route \in PublicRoutes THEN {<<>>} ELSE Headers(issued)) :
           \E body \in Bodies(route) :
             /\ route = "POST /api/v1/register"
                    => Len(users) + Cardinality(Registering) < MaxUsers
             /\ procs' = [procs EXCEPT ![p] =
                    [IdleProc EXCEPT !.pc = "chain", !.route = route, !.header = header,
                                     !.body = body, !.handlers = RouteChain(route),
                                     !.index = 1]]
    /\ UNCHANGED <<users, clock, issued, faults, created, probe, library>>

RunAuthenticateToken(p) ==
    /\ Current(p) = "AuthenticateToken"
    /\ procs' = [procs EXCEPT ![p] =
           Served(AuthenticateToken(procs[p], clock, JWTSecret), Current(p))]
    /\ UNCHANGED <<users, clock, issued, faults, created, probe, library>>

RunRequireAdmin(p) ==
    /\ Current(p) = "RequireAdmin"
    /\ procs' = [procs EXCEPT ![p] = Served(RequireAdmin(procs[p]), Current(p))]
    /\ UNCHANGED <<users, clock, issued, faults, created, probe, library>>

RunRequireUser(p) ==
    /\ Current(p) = "RequireUser"
    /\ procs' = [procs EXCEPT ![p] = Served(RequireUser(procs[p]), Current(p))]
    /\ UNCHANGED <<users, clock, issued, faults, created, probe, library>>

\* Controller.Register up to the call of RegisterUser
Register(c) ==
    IF ~BindUserRequest(c.body)
    THEN [JSON(c, StatusBadRequest, "Invalid request payload")
            EXCEPT !.pc = "done", !.ran = "Register"]
    ELSE [c EXCEPT !.pc = "reg_lookup", !.op = "register", !.ran = "Register"]

\* Controller.Login up to the call of LoginUser
LoginHandler(c) ==
    IF ~BindLoginRequest(c.body)
    THEN [JSON(c, StatusBadRequest, "Invalid request payload")
            EXCEPT !.pc = "done", !.ran = "Login"]
    ELSE [c EXCEPT !.pc = "login", !.op = "login", !.ran = "Login"]

\* Controller.PromoteUser up to the call of PromoteUserToAdmin
PromoteUser(c) ==
    IF ~BindPromoteRequest(c.body)
    THEN [JSON(c, StatusBadRequest, "Invalid request payload")
            EXCEPT !.pc = "done", !.ran = "PromoteUser"]
    ELSE [c EXCEPT !.pc = "prom_lookup", !.op = "promote", !.ran = "PromoteUser"]

RunRegister(p) ==
    /\ Current(p) = "Register"
    /\ procs' = [procs EXCEPT ![p] = Served(Register(procs[p]), Current(p))]
    /\ UNCHANGED <<users, clock, issued, faults, created, probe, library>>

RunLogin(p) ==
    /\ Current(p) = "Login"
    /\ procs' = [procs EXCEPT ![p] = Served(LoginHandler(procs[p]), Current(p))]
    /\ UNCHANGED <<users, clock, issued, faults, created, probe, library>>

RunPromoteUser(p) ==
    /\ Current(p) = "PromoteUser"
    /\ procs' = [procs EXCEPT ![p] = Served(PromoteUser(procs[p]), Current(p))]
    /\ UNCHANGED <<users, clock, issued, faults, created, probe, library>>

\* the users whose id has that hex form (ObjectIDFromHex, then FindOne by _id)
ByHexID(coll, id) == {i \in 1..Len(coll) : Hex(coll[i].ID) = id}

\* Controller.GetProfile: the user of the context's user_id; the type
\* assertion userID.(string) panics on a nil user_id and gin answers 500
GetProfile(c, coll, fails) ==
    IF ~c.keys.exists
    THEN [JSON(c, StatusUnauthorized, "Authentication required")
            EXCEPT !.pc = "done", !.ran = "GetProfile"]
    ELSE IF c.keys.user_id = <<>>
    THEN [JSON(c, StatusInternalServerError, "panic")
            EXCEPT !.pc = "done", !.ran = "GetProfile"]
    ELSE IF fails
    THEN [JSON(c, StatusNotFound, "store unavailable")
            EXCEPT !.pc = "done", !.ran = "GetProfile"]
    ELSE IF ByHexID(coll, c.keys.user_id) = {}
    THEN [JSON(c, StatusNotFound, "user not found")
            EXCEPT !.pc = "done", !.ran = "GetProfile"]
    ELSE [JSON(c, StatusOK, "")
            EXCEPT !.pc = "done", !.ran = "GetProfile",
                   !.ret = [NoRet EXCEPT !.user =
                              coll[CHOOSE i \in ByHexID(coll, c.keys.user_id) : TRUE]]]

RunGetProfile(p) ==
    /\ Current(p) = "GetProfile"
    /\ \E fails \in FaultChoices :
         /\ fails => procs[p].keys.exists /\ procs[p].keys.user_id # <<>>
         /\ procs' = [procs EXCEPT ![p] =
                Served(GetProfile(procs[p], users, fails), Current(p))]
         /\ faults' = Bump(fails)
    /\ UNCHANGED <<users, clock, issued, created, probe, library>>

\* Controller.GetAllUsers: the whole collection, 500 when the store fails
GetAllUsers(c, fails) ==
    IF fails
    THEN [JSON(c, StatusInternalServerError, "store unavailable")
            EXCEPT !.pc = "done", !.ran = "GetAllUsers"]
    ELSE [JSON(c, StatusOK, "") EXCEPT !.pc = "done", !.ran = "GetAllUsers"]

RunGetAllUsers(p) ==
    /\ Current(p) = "GetAllUsers"
    /\ \E fails \in FaultChoices :
         /\ procs' = [procs EXCEPT ![p] = Served(GetAllUsers(procs[p], fails), Current(p))]
         /\ faults' = Bump(fails)
    /\ UNCHANGED <<users, clock, issued, created, probe, library>>

\* the task handlers: the tasks collection is not part of this model, the
\* handler runs and answers
RunTaskHandler(p) ==
    /\ Current(p) \in TaskHandlers
    /\ procs' = [procs EXCEPT ![p] =
           Served([JSON(@, StatusOK, "") EXCEPT !.pc = "done", !.ran = Current(p)],
                  Current(p))]
    /\ UNCHANGED <<users, clock, issued, faults, created, probe, library>>

\* the controller answers with the outcome of the usecase call
ControllerRespond(p) ==
    /\ procs[p].pc = "returned"
    /\ procs[p].route # ""
    /\ procs' = [procs EXCEPT ![p] =
           [JSON(@, ResponseStatus(procs[p].op, procs[p].ret.err), procs[p].ret.err)
              EXCEPT !.pc = "done"]]
    /\ UNCHANGED <<users, clock, issued, faults, created, probe, library>>

\* the response leaves; the client keeps the token of a successful login
Finish(p) ==
    /\ procs[p].pc = "done"
    /\ procs' = [procs EXCEPT ![p] = IdleProc]
    /\ issued' = IF procs[p].ret.token # NoToken /\ Cardinality(issued) < MaxIssued
                 THEN issued \cup {procs[p].ret.token}
                 ELSE issued
    /\ UNCHANGED <<users, clock, faults, created, probe, library>>

\* a day passes
TickDay ==
    /\ clock + TokenLifetime <= MaxNow
    /\ clock' = clock + TokenLifetime
    /\ UNCHANGED <<users, procs, issued, faults, created, probe, library>>

Next ==
    \/ \E p \in Workers : StartRequest(p)
    \/ \E p \in Workers : RunAuthenticateToken(p)
    \/ \E p \in Workers : RunRequireAdmin(p)
    \/ \E p \in Workers : RunRequireUser(p)
    \/ \E p \in Workers : RunRegister(p)
    \/ \E p \in Workers : RunLogin(p)
    \/ \E p \in Workers : RunPromoteUser(p)
    \/ \E p \in Workers : RunGetProfile(p)
    \/ \E p \in Workers : RunGetAllUsers(p)
    \/ \E p \in Workers : RunTaskHandler(p)
    \/ \E p \in Workers : RegisterLookup(p)
    \/ \E p \in Workers : RegisterCount(p)
    \/ \E p \in Workers : RegisterCreate(p)
    \/ \E p \in Workers : Login(p)
    \/ \E p \in Workers : PromoteLookup(p)
    \/ \E p \in Workers : PromoteUpdate(p)
    \/ \E p \in Workers : PromoteReread(p)
    \/ \E p \in Workers : ControllerRespond(p)
    \/ \E p \in Workers : Finish(p)
    \/ TickDay

Spec == Init /\ [][Next]_vars

(***************************************************************************)
(* The usecases called concurrently: each worker is a request goroutine    *)
(* that has reached its controller                                         *)
(***************************************************************************)
StartRegister(p) ==
    /\ procs[p].pc = "idle"
    /\ Len(users) + Cardinality(Registering) < MaxRaceUsers
    /\ \E u \in Usernames :
         procs' = [procs EXCEPT ![p] =
             [IdleProc EXCEPT !.pc = "reg_lookup", !.op = "register",
                              !.body = [username |-> u, password |-> PwA]]]
    /\ UNCHANGED <<users, clock, issued, faults, created, probe, library>>

StartLogin(p) ==
    /\ procs[p].pc = "idle"
    /\ \E u \in Usernames, w \in Passwords :
         procs' = [procs EXCEPT ![p] =
             [IdleProc EXCEPT !.pc = "login", !.op = "login",
                              !.body = [username |-> u, password |-> w]]]
    /\ UNCHANGED <<users, clock, issued, faults, created, probe, library>>

StartPromote(p) ==
    /\ procs[p].pc = "idle"
    /\ \E u \in Usernames :
         procs' = [procs EXCEPT ![p] =
             [IdleProc EXCEPT !.pc = "prom_lookup", !.op = "promote",
                              !.body = [username |-> u, password |-> <<>>]]]
    /\ UNCHANGED <<users, clock, issued, faults, created, probe, library>>

\* the call returns to its caller
Return(p) ==
    /\ procs[p].pc = "returned"
    /\ procs[p].route = ""
    /\ procs' = [procs EXCEPT ![p] = IdleProc]
    /\ UNCHANGED <<users, clock, issued, faults, created, probe, library>>

NextRace ==
    \/ \E p \in Procs : StartRegister(p)
    \/ \E p \in Procs : StartLogin(p)
    \/ \E p \in Procs : StartPromote(p)
    \/ \E p \in Procs : RegisterLookup(p)
    \/ \E p \in Procs : RegisterCount(p)
    \/ \E p \in Procs : RegisterCreate(p)
    \/ \E p \in Procs : Login(p)
    \/ \E p \in Procs : PromoteLookup(p)
    \/ \E p \in Procs : PromoteUpdate(p)
    \/ \E p \in Procs : PromoteReread(p)
    \/ \E p \in Procs : Return(p)

SpecRace == Init /\ [][NextRace]_vars

(***************************************************************************)
(* The JWT service alone: tokens are minted and any token is validated,    *)
(* one call at a time                                                      *)
(***************************************************************************)
\* the users tokens are minted for
JWTUsers ==
    {[ID |-> 1, Username |-> "alice", Password |-> NoDigest, Role |-> RoleAdmin],
     [ID |-> 171, Username |-> "bob", Password |-> NoDigest, Role |-> RoleUser]}

\* claims a forger writes, with and without an expiry around now
ForgedClaims(now) ==
    {[AdminClaims EXCEPT !.exp = e] : e \in {NoTime, now, now + 1}}

\* header, payload and signature segments put together by a forger
TokenUniverse(iss, now) ==
    PresentedTokens(iss)
        \cup {<<[alg |-> a, typ |-> "JWT"], cl, sg>> :
                 a \in {"HS256", "HS384", "none", "RS256", "XX"},
                 cl \in ForgedClaims(now),
                 sg \in {NoSig} \cup {t[3] : t \in iss}}
        \cup {SignedString(a, cl, OtherSecret) :
                 a \in {"HS256", "HS384"}, cl \in ForgedClaims(now)}
        \cup {<<t[1], [t[2] EXCEPT !.role = RoleAdmin],
                HMACSign("HS256", <<t[1], [t[2] EXCEPT !.role = RoleAdmin]>>, OtherSecret)>> :
                 t \in iss}
        \cup {<<t[1], t[2]>> : t \in iss}

JWTGenerate ==
    /\ probe = NoProbe
    /\ Cardinality(issued) < MaxIssued
    /\ \E user \in JWTUsers, later \in SecondReading(clock) :
         issued' = issued \cup {GenerateToken(user, clock, later, JWTSecret)}
    /\ UNCHANGED <<users, procs, clock, faults, created, probe, library>>

JWTValidate ==
    /\ probe = NoProbe
    /\ \E t \in TokenUniverse(issued, clock), secret \in {JWTSecret, OtherSecret} :
         probe' = [token |-> t, at |-> clock, secret |-> secret,
                   Valid |-> ValidateToken(t, clock, secret).Valid,
                   Claims |-> ValidateToken(t, clock, secret).Claims,
                   errs |-> ValidateToken(t, clock, secret).errs]
    /\ UNCHANGED <<users, procs, clock, issued, faults, created, library>>

\* the ValidateToken call returns to its caller
JWTReturn ==
    /\ probe # NoProbe
    /\ probe' = NoProbe
    /\ UNCHANGED <<users, procs, clock, issued, faults, created, library>>

\* some hours pass
TickHours ==
    /\ probe = NoProbe
    /\ clock + HoursPerTick <= MaxNowJWT
    /\ clock' = clock + HoursPerTick
    /\ UNCHANGED <<users, procs, issued, faults, created, probe, library>>

NextJWT == JWTGenerate \/ JWTValidate \/ JWTReturn \/ TickHours

SpecJWT == Init /\ [][NextJWT]_vars

(***************************************************************************)
(* The middleware stages alone, composed as the middleware tests compose   *)
(* them: a role stage with or without AuthenticateToken ahead of it, after *)
(* a handler that sets the role key or not                                 *)
(***************************************************************************)
GateStages == {"AuthenticateToken", "RequireAdmin", "RequireUser"}

\* the chains a router is given, ending in a handler that only answers
GateChains ==
    {<<"AuthenticateToken", "GetAllTasks">>,
     <<"RequireAdmin", "GetAllTasks">>,
     <<"RequireUser", "GetAllTasks">>,
     <<"AuthenticateToken", "RequireAdmin", "GetAllTasks">>,
     <<"AuthenticateToken", "RequireUser", "GetAllTasks">>,
     <<"RequireAdmin", "AuthenticateToken", "GetAllTasks">>,
     <<"RequireUser", "AuthenticateToken", "GetAllTasks">>}

\* the values c.Set("role", ...) is given: the two roles, nil, another string
GateRoles == {RoleAdmin, RoleUser, Nil, "guest"}

\* the context keys at the head of the chain
GateKeys ==
    {NoKeys} \cup {[NoKeys EXCEPT !.exists = TRUE, !.role = r] : r \in GateRoles}

\* tokens the JWT service of the stage validates: one per role value, and
\* one with a role and no user_id claim
GateTokens ==
    {SignedString("HS256", [AdminClaims EXCEPT !.role = r, !.exp = TokenLifetime],
                  JWTSecret) : r \in GateRoles}
        \cup {SignedString("HS256", [AdminClaims EXCEPT !.user_id = <<>>,
                                                        !.exp = TokenLifetime],
                           JWTSecret)}

GateRequest(p) ==
    /\ procs[p].pc = "idle"
    /\ \E handlers \in GateChains, keys \in GateKeys, header \in Headers(GateTokens) :
         procs' = [procs EXCEPT ![p] =
             [IdleProc EXCEPT !.pc = "chain", !.route = "GET /api/v1/tasks",
                              !.header = header, !.handlers = handlers,
                              !.index = 1, !.keys = keys]]
    /\ UNCHANGED <<users, clock, issued, faults, created, probe, library>>

NextGate ==
    \/ \E p \in Workers : GateRequest(p)
    \/ \E p \in Workers : RunAuthenticateToken(p)
    \/ \E p \in Workers : RunRequireAdmin(p)
    \/ \E p \in Workers : RunRequireUser(p)
    \/ \E p \in Workers : RunTaskHandler(p)
    \/ \E p \in Workers : Finish(p)
    \/ TickDay

SpecGate == Init /\ [][NextGate]_vars

(***************************************************************************)
(* The password service alone: a secret is hashed, then candidates are     *)
(* compared with the digest                                                *)
(***************************************************************************)
\* a secret of n bytes, all of them ch
Fill(n, ch) == [i \in 1..n |-> ch]

\* the lengths of the secrets tried: short ones and those around bcrypt's limit
SecretLengths == {0, 1, MinPasswordLen, BcryptMaxLen - 1, BcryptMaxLen, BcryptMaxLen + 1}

Secrets == {Fill(n, ch) : n \in SecretLengths, ch \in {"a", "b", "c"}}

\* HashPassword is called with a secret
HashSecret ==
    /\ probe = NoProbe
    /\ \E password \in Secrets, salt \in Salts :
         probe' = [op |-> "hash", password |-> password, candidate |-> <<>>,
                   digest |-> HashPassword(password, salt).digest,
                   err |-> HashPassword(password, salt).err]
    /\ UNCHANGED <<users, procs, clock, issued, faults, created, library>>

\* ComparePassword is called with the digest just made and a candidate: the
\* secret itself, the secret with one more byte, or another secret
CompareSecret ==
    /\ probe # NoProbe
    /\ probe.op = "hash"
    /\ probe.err = ""
    /\ \E candidate \in Secrets \cup {Append(probe.password, "x")} :
         probe' = [probe EXCEPT !.op = "compare", !.candidate = candidate,
                                !.err = ComparePassword(probe.digest, candidate)]
    /\ UNCHANGED <<users, procs, clock, issued, faults, created, library>>

\* the call returns to its caller
HashReturn ==
    /\ probe # NoProbe
    /\ probe' = NoProbe
    /\ UNCHANGED <<users, procs, clock, issued, faults, created, library>>

NextHash == HashSecret \/ CompareSecret \/ HashReturn

SpecHash == Init /\ [][NextHash]_vars

(***************************************************************************)
(* The library service alone: console commands call its methods one at a   *)
(* time with the ids the operator types                                    *)
(***************************************************************************)
BookIDs == {1, 2}
MemberIDs == {1, 2}

\* the longest BorrowedBooks list followed
MaxBorrowed == 3

\* m[k] = v of a Go map: the key is added or its value replaced
MapSet(m, k, v) == [x \in DOMAIN m \cup {k} |-> IF x = k THEN v ELSE m[x]]

\* delete(m, k) of a Go map
MapDelete(m, k) == [x \in DOMAIN m \ {k} |-> m[x]]

\* the slice without its element at index i
RemoveAt(list, i) == [j \in 1..(Len(list) - 1) |-> IF j < i THEN list[j] ELSE list[j + 1]]

\* AddBook sets the status to Available and stores the book under its id,
\* whether or not the id is already in the map
AddBook ==
    \E bookID \in BookIDs :
        /\ library' = [library EXCEPT
                          !.Books = MapSet(@, bookID, "Available"),
                          !.call = [op |-> "AddBook", bookID |-> bookID,
                                    memberID |-> 0, err |-> ""]]
        /\ UNCHANGED <<users, procs, clock, issued, faults, created, probe>>

\* RemoveBook deletes the id from the Books map
RemoveBook ==
    \E bookID \in BookIDs :
        /\ library' = [library EXCEPT
                          !.Books = MapDelete(@, bookID),
                          !.call = [op |-> "RemoveBook", bookID |-> bookID,
                                    memberID |-> 0, err |-> ""]]
        /\ UNCHANGED <<users, procs, clock, issued, faults, created, probe>>

\* AddMember empties the member's BorrowedBooks and stores the member under
\* its id, whether or not the id is already in the map
AddMember ==
    \E memberID \in MemberIDs :
        /\ library' = [library EXCEPT
                          !.Members = MapSet(@, memberID, <<>>),
                          !.call = [op |-> "AddMember", bookID |-> 0,
                                    memberID |-> memberID, err |-> ""]]
        /\ UNCHANGED <<users, procs, clock, issued, faults, created, probe>>

\* the error BorrowBook returns, "" for nil
BorrowBookErr(lib, bookID, memberID) ==
    IF bookID \notin DOMAIN lib.Books THEN "book not found"
    ELSE IF lib.Books[bookID] = "Borrowed" THEN "book is already borrowed"
    ELSE IF memberID \notin DOMAIN lib.Members THEN "member not found"
    ELSE ""

\* BorrowBook: on success the book's status becomes Borrowed and the book is
\* appended to the member's BorrowedBooks
BorrowBook ==
    \E bookID \in BookIDs, memberID \in MemberIDs :
        LET err == BorrowBookErr(library, bookID, memberID) IN
        /\ err = "" => Len(library.Members[memberID]) < MaxBorrowed
        /\ library' =
             [Books |-> IF err = "" THEN MapSet(library.Books, bookID, "Borrowed")
                        ELSE library.Books,
              Members |-> IF err = ""
                          THEN MapSet(library.Members, memberID,
                                      Append(library.Members[memberID], bookID))
                          ELSE library.Members,
              call |-> [op |-> "BorrowBook", bookID |-> bookID,
                        memberID |-> memberID, err |-> err]]
        /\ UNCHANGED <<users, procs, clock, issued, faults, created, probe>>

\* the index of the first entry of the list with the id, 0 for -1
BookIndex(list, bookID) ==
    IF \E i \in 1..Len(list) : list[i] = bookID
    THEN CHOOSE i \in 1..Len(list) :
             /\ list[i] = bookID
             /\ \A j \in 1..(i - 1) : list[j] # bookID
    ELSE 0

\* the error ReturnBook returns, "" for nil
ReturnBookErr(lib, bookID, memberID) ==
    IF bookID \notin DOMAIN lib.Books THEN "book not found"
    ELSE IF memberID \notin DOMAIN lib.Members THEN "member not found"
    ELSE IF BookIndex(lib.Members[memberID], bookID) = 0
         THEN "book not borrowed by this member"
    ELSE ""

\* ReturnBook: on success the book's status becomes Available and the entry
\* found is removed from the member's BorrowedBooks
ReturnBook ==
    \E bookID \in BookIDs, memberID \in MemberIDs :
        LET err == ReturnBookErr(library, bookID, memberID) IN
        /\ library' =
             [Books |-> IF err = "" THEN MapSet(library.Books, bookID, "Available")
                        ELSE library.Books,
              Members |-> IF err = ""
                          THEN MapSet(library.Members, memberID,
                                      RemoveAt(library.Members[memberID],
                                               BookIndex(library.Members[memberID], bookID)))
                          ELSE library.Members,
              call |-> [op |-> "ReturnBook", bookID |-> bookID,
                        memberID |-> memberID, err |-> err]]
        /\ UNCHANGED <<users, procs, clock, issued, faults, created, probe>>

NextLibrary == AddBook \/ RemoveBook \/ AddMember \/ BorrowBook \/ ReturnBook

SpecLibrary == Init /\ [][NextLibrary]_vars

(***************************************************************************)
(* Properties                                                              *)
(***************************************************************************)
\* the token of an Authorization header of the shape "Bearer <token>"
IsBearer(header) == Len(header) = 2 /\ header[1] = "Bearer"

\* a token verifies at an instant: three segments, an HMAC method, the MAC of
\* its own header and payload under the service's secret, and not yet expired
VerifiesAt(token, at) ==
    /\ Len(token) = 3
    /\ token[1].alg \in HMACAlgs
    /\ token[3] = [alg |-> token[1].alg, key |-> JWTSecret, over |-> <<token[1], token[2]>>]
    /\ (token[2].exp = NoTime \/ at < token[2].exp)

\* C1: starting from an empty store, the first register call that succeeds
\* makes an admin and every register call that succeeds after it makes a
\* plain user.
FirstRegisteredAdminRestStandard ==
    \A i \in 1..Len(created) :
        created[i] = IF i = 1 THEN RoleAdmin ELSE RoleUser

\* C2: no two stored users have the same username, whatever the interleaving
\* of the register calls.
UsernamesUnique ==
    \A i \in 1..Len(users) : \A j \in 1..Len(users) :
        i # j => users[i].Username # users[j].Username

\* C3: a register call whose username was already stored when it looked the
\* username up inserts nothing and returns "username already exists".
RegisterExistingUsernameFails ==
    \A p \in Procs :
        (procs[p].op = "register" /\ procs[p].existed)
            => /\ ~procs[p].inserted
               /\ procs[p].pc \in {"returned", "done"}
               /\ procs[p].ret.err = "username already exists"

\* C4: the handler of an admin-only route runs only for a request whose
\* bearer token verifies and carries the role admin; any other request to
\* these routes ends rejected (401 or 403) with no handler run.
AdminRoutesReachedOnlyByAdminToken ==
    \A p \in Procs :
        procs[p].route \in AdminRoutes =>
            /\ procs[p].ran # "" =>
                   /\ IsBearer(procs[p].header)
                   /\ VerifiesAt(procs[p].header[2], procs[p].authAt)
                   /\ procs[p].header[2][2].role = RoleAdmin
            /\ (procs[p].pc = "done"
                  /\ ~(/\ IsBearer(procs[p].header)
                       /\ VerifiesAt(procs[p].header[2], procs[p].authAt)
                       /\ procs[p].header[2][2].role = RoleAdmin)) =>
                   /\ procs[p].ran = ""
                   /\ procs[p].status \in {StatusUnauthorized, StatusForbidden}

\* C4 witness: an admin-only handler has run
AdminHandlerReached ==
    \E p \in Procs : procs[p].route \in AdminRoutes /\ procs[p].ran # ""

\* C5: with a first and a second registered user, a request to an admin-only
\* route bearing the unexpired login token of the first user reaches the
\* handler, and one bearing a login token of the second user with role user
\* is answered 403 with no handler run.
FirstTokenPassesSecondForbidden ==
    \A p \in Procs :
        (/\ procs[p].pc = "done"
         /\ procs[p].route \in AdminRoutes
         /\ IsBearer(procs[p].header)
         /\ procs[p].header[2] \in issued
         /\ procs[p].authAt < procs[p].header[2][2].exp
         /\ Len(users) >= 2)
            => /\ procs[p].header[2][2].user_id = Hex(users[1].ID) =>
                      /\ procs[p].ran = RouteHandler(procs[p].route)
                      /\ procs[p].status \notin {StatusUnauthorized, StatusForbidden}
               /\ (/\ procs[p].header[2][2].user_id = Hex(users[2].ID)
                   /\ procs[p].header[2][2].role = RoleUser) =>
                      /\ procs[p].ran = ""
                      /\ procs[p].status = StatusForbidden

\* C5 witness: a request with the second user's login token was answered 403
\* on an admin-only route while the first user holds a token too
SecondUserTokenForbidden ==
    \E p \in Procs :
        /\ procs[p].pc = "done"
        /\ procs[p].route \in AdminRoutes
        /\ IsBearer(procs[p].header)
        /\ procs[p].header[2] \in issued
        /\ Len(users) >= 2
        /\ procs[p].header[2][2].user_id = Hex(users[2].ID)
        /\ procs[p].status = StatusForbidden
        /\ \E t \in issued : t[2].user_id = Hex(users[1].ID) /\ t[2].role = RoleAdmin

\* C6: a login for a username nobody has and a login with the wrong secret
\* for an existing username return the same thing, the error
\* "invalid credentials" and nothing else.
LoginFailuresIndistinguishable ==
    \A p \in Procs : \A q \in Procs :
        (/\ procs[p].pc = "returned" /\ procs[p].op = "login"
         /\ procs[q].pc = "returned" /\ procs[q].op = "login"
         /\ procs[p].why = "no such user"
         /\ procs[q].why = "wrong secret")
            => /\ procs[p].ret = procs[q].ret
               /\ procs[p].ret.err = "invalid credentials"

\* C6 witness: both kinds of failed login have returned
BothLoginFailuresSeen ==
    \E p \in Procs : \E q \in Procs :
        /\ procs[p].pc = "returned" /\ procs[p].op = "login"
        /\ procs[q].pc = "returned" /\ procs[q].op = "login"
        /\ procs[p].why = "no such user"
        /\ procs[q].why = "wrong secret"

\* the signature segment of a token is the MAC of its header and payload
\* under that secret, by the HMAC method its header declares
SignedWith(token, secret) ==
    /\ token[1].alg \in HMACAlgs
    /\ token[3] = [alg |-> token[1].alg, key |-> secret, over |-> <<token[1], token[2]>>]

\* a three-segment token whose expiry is not later than the instant
ExpiredAt(token, at) ==
    Len(token) = 3 /\ token[2].exp # NoTime /\ ~(at < token[2].exp)

\* C7: validating a token the service issued for a user, at an instant before
\* the token's expiry, succeeds and returns the id (in hex), the username and
\* the role of that user.
VerifyReturnsIssuedClaims ==
    (/\ probe.token \in issued
     /\ probe.secret = JWTSecret
     /\ probe.at < probe.token[2].exp)
        => /\ probe.Valid
           /\ probe.errs = {}
           /\ \E user \in JWTUsers :
                 /\ probe.token = GenerateToken(user, probe.token[2].exp - TokenLifetime,
                                                probe.token[2].iat, JWTSecret)
                 /\ probe.Claims.user_id = Hex(user.ID)
                 /\ probe.Claims.username = user.Username
                 /\ probe.Claims.role = user.Role

\* C7 witness: an issued token was validated hours after its issuance and
\* before its expiry
IssuedTokenVerified ==
    /\ probe.token \in issued
    /\ probe.secret = JWTSecret
    /\ probe.token[2].iat < probe.at
    /\ probe.at < probe.token[2].exp
    /\ probe.Valid

\* C8 as stated: validating a token whose expiry is not later than now fails
\* with the expiry error, whether or not its signature is valid.
ExpiredFailsWithExpired ==
    ExpiredAt(probe.token, probe.at)
        => ~probe.Valid /\ "ErrTokenExpired" \in probe.errs

\* C8 as amended: validating a token whose expiry is not later than now
\* fails; the failure is the expiry error exactly when the signature of the
\* token verifies under the configured secret, and a signature or
\* unverifiable-method error otherwise.
ExpiredFailsExpiredIffSigned ==
    ExpiredAt(probe.token, probe.at)
        => /\ ~probe.Valid
           /\ probe.errs # {}
           /\ "ErrTokenExpired" \in probe.errs <=> SignedWith(probe.token, probe.secret)
           /\ "ErrTokenExpired" \notin probe.errs =>
                  \/ "ErrTokenSignatureInvalid" \in probe.errs
                  \/ "ErrTokenUnverifiable" \in probe.errs

\* C8 witness: an issued token was validated at the very instant of its expiry
\* and refused as expired
ExpiredIssuedTokenRejected ==
    /\ probe.token \in issued
    /\ probe.secret = JWTSecret
    /\ probe.at = probe.token[2].exp
    /\ "ErrTokenExpired" \in probe.errs

\* C9: validating a token that is signed, but with a secret other than the
\* one the validating service is configured with, fails with the signature
\* error, expired or not.
OtherSecretFailsSignature ==
    (/\ Len(probe.token) = 3
     /\ \E k \in {JWTSecret, OtherSecret} :
            k # probe.secret /\ SignedWith(probe.token, k))
        => /\ ~probe.Valid
           /\ "ErrTokenSignatureInvalid" \in probe.errs
           /\ "ErrSignatureInvalid" \in probe.errs

\* C9 witness: an unexpired token issued by the service was validated by a
\* service configured with another secret
OtherSecretTokenProbed ==
    /\ probe.token \in issued
    /\ probe.secret = OtherSecret
    /\ probe.at < probe.token[2].exp
    /\ ~probe.Valid

\* C10: validating a token whose header declares the none algorithm, an
\* asymmetric algorithm or any other non-HMAC algorithm fails, whatever its
\* claims and signature segment.
NonHMACRejected ==
    (Len(probe.token) = 3 /\ probe.token[1].alg \notin HMACAlgs)
        => ~probe.Valid /\ probe.errs # {}

\* C10 witness: the unsigned none-algorithm token with admin claims and no
\* expiry was validated and refused
NoneTokenProbed ==
    /\ probe.token = NoneToken
    /\ probe.secret = JWTSecret
    /\ ~probe.Valid

\* the last handler gin ran for the request, "" before the first
LastServed(c) == IF c.trace = <<>> THEN "" ELSE c.trace[Len(c.trace)]

\* C11: a request to a protected route whose Authorization header is present
\* but is not "Bearer <token>" is answered 401 with the format error by
\* AuthenticateToken, and ValidateToken is never called for it.
MalformedHeaderRejectedUnparsed ==
    \A p \in Procs :
        (/\ procs[p].handlers # <<>>
         /\ procs[p].handlers[1] = "AuthenticateToken"
         /\ procs[p].header # <<>>
         /\ ~IsBearer(procs[p].header))
            => /\ procs[p].authAt = NoTime
               /\ ~procs[p].keys.exists
               /\ procs[p].ran = ""
               /\ procs[p].pc \in {"chain", "done"}
               /\ procs[p].pc = "chain" => procs[p].index = 1
               /\ procs[p].pc = "done" =>
                      /\ procs[p].aborted
                      /\ procs[p].trace = <<"AuthenticateToken">>
                      /\ procs[p].status = StatusUnauthorized
                      /\ procs[p].error =
                             "Authorization header must be in format: Bearer <token>"

\* C11 witness: a request carrying a token the service issued, under the
\* scheme Token, was rejected
WrongSchemeRejected ==
    \E p \in Procs :
        /\ procs[p].pc = "done"
        /\ Len(procs[p].header) = 2
        /\ procs[p].header[1] = "Token"
        /\ procs[p].header[2] \in issued
        /\ procs[p].status = StatusUnauthorized

\* the roles a role stage lets through
AllowedRoles(stage) ==
    IF stage = "RequireAdmin" THEN {RoleAdmin} ELSE {RoleAdmin, RoleUser}

\* C12: a role stage run on a request that has the role key answers 403 and
\* aborts exactly when the role is not among the roles the stage allows, and
\* otherwise hands the request, with nothing written, to the next handler.
RoleStageForbidsExactlyOtherRoles ==
    \A p \in Procs :
        (LastServed(procs[p]) \in {"RequireAdmin", "RequireUser"} /\ procs[p].keys.exists)
            => IF procs[p].keys.role \in AllowedRoles(LastServed(procs[p]))
               THEN /\ ~procs[p].aborted
                    /\ procs[p].pc = "chain"
                    /\ procs[p].index = Len(procs[p].trace) + 1
                    /\ procs[p].written = 0
               ELSE /\ procs[p].aborted
                    /\ procs[p].pc = "done"
                    /\ procs[p].status = StatusForbidden
                    /\ procs[p].ran = ""

\* C12 witness: RequireUser has answered 403 to a request whose role is
\* neither admin nor user
RoleStageRefusedGuest ==
    \E p \in Procs :
        /\ LastServed(procs[p]) = "RequireUser"
        /\ procs[p].keys.exists
        /\ procs[p].keys.role = "guest"
        /\ procs[p].status = StatusForbidden

\* C13: a role stage run on a request that has no role key, be it first in
\* the chain, answers 401 "Authentication required" and aborts; no later
\* handler runs.
RoleStageWithoutIdentityUnauthenticated ==
    \A p \in Procs :
        (LastServed(procs[p]) \in {"RequireAdmin", "RequireUser"} /\ ~procs[p].keys.exists)
            => /\ procs[p].aborted
               /\ procs[p].pc = "done"
               /\ procs[p].status = StatusUnauthorized
               /\ procs[p].error = "Authentication required"
               /\ procs[p].ran = ""

\* C13 witness: RequireUser ran first in its chain, on a request nothing had
\* set a role for, and answered 401
RoleStageRanFirstWithoutIdentity ==
    \E p \in Procs :
        /\ procs[p].trace = <<"RequireUser">>
        /\ ~procs[p].keys.exists
        /\ procs[p].status = StatusUnauthorized

\* the terminal states of the gate a request is in
GateOutcomes(c) ==
    {o \in {"AuthenticationFailed", "Forbidden", "Authorized"} :
        \/ o = "AuthenticationFailed" /\ c.aborted /\ c.status = StatusUnauthorized
        \/ o = "Forbidden" /\ c.aborted /\ c.status = StatusForbidden
        \/ o = "Authorized" /\ c.ran # ""}

\* C14: a request to a protected route never is both aborted by a stage and
\* delivered to its handler, gets at most one response, and once it is done it
\* is in exactly one of the three terminal states: rejected 401 by the gate,
\* rejected 403 by the gate, or delivered to the handler of its route.
GateOutcomeExactlyOne ==
    \A p \in Procs :
        (procs[p].handlers # <<>> /\ procs[p].handlers[1] \in GateStages)
            => /\ ~(procs[p].aborted /\ procs[p].ran # "")
               /\ procs[p].written <= 1
               /\ procs[p].aborted =>
                      /\ procs[p].pc = "done"
                      /\ procs[p].written = 1
                      /\ procs[p].status \in {StatusUnauthorized, StatusForbidden}
               /\ procs[p].ran # "" =>
                      procs[p].ran = procs[p].handlers[Len(procs[p].handlers)]
               /\ procs[p].pc = "done" =>
                      /\ Cardinality(GateOutcomes(procs[p])) = 1
                      /\ procs[p].written = 1

\* C14 witness: a request with a verifying token was stopped by RequireAdmin
\* with 403 after AuthenticateToken let it through
StoppedByRoleStage ==
    \E p \in Procs :
        /\ procs[p].pc = "done"
        /\ procs[p].trace = <<"AuthenticateToken", "RequireAdmin">>
        /\ GateOutcomes(procs[p]) = {"Forbidden"}

\* C15: on every route the stages run in the order AuthenticateToken, role
\* stage, handler: a role stage runs only after AuthenticateToken ran on the
\* request and attached the identity, the handler only after every stage of
\* its route ran and passed, no handler runs twice, and nothing runs after a
\* stage has aborted the chain.
StagesRunInOrder ==
    \A p \in Procs :
        procs[p].handlers # <<>> =>
            /\ \A k \in 1..Len(procs[p].trace) :
                   /\ procs[p].trace[k] \in {"RequireAdmin", "RequireUser"} =>
                          /\ k > 1
                          /\ procs[p].trace[k - 1] = "AuthenticateToken"
                          /\ procs[p].keys.exists
                          /\ procs[p].authAt # NoTime
                   /\ procs[p].trace[k] \notin GateStages =>
                          /\ k = Len(procs[p].trace)
                          /\ ~procs[p].aborted
                          /\ procs[p].route \notin PublicRoutes =>
                                 /\ procs[p].trace[1] = "AuthenticateToken"
                                 /\ procs[p].keys.exists
                          /\ procs[p].route \in AdminRoutes =>
                                 k = 3 /\ procs[p].trace[2] = "RequireAdmin"
                          /\ procs[p].route \in UserRoutes =>
                                 k = 3 /\ procs[p].trace[2] = "RequireUser"
                   /\ \A j \in 1..Len(procs[p].trace) :
                          j # k => procs[p].trace[j] # procs[p].trace[k]
            /\ procs[p].aborted =>
                   /\ procs[p].pc = "done"
                   /\ LastServed(procs[p]) \in GateStages
                   /\ procs[p].ran = ""
            /\ procs[p].pc = "chain" => procs[p].index = Len(procs[p].trace) + 1

\* C15 witness: all three handlers of a user route have run, in their order
\* (the list of the tasks runs last)
UserRouteChainCompleted ==
    \E p \in Procs :
        procs[p].trace = <<"AuthenticateToken", "RequireUser", "GetAllTasks">>

\* C16: a promote call whose lookup finds no user of that name returns
\* "user not found", one whose lookup finds a user that is an admin already
\* returns "user is already an admin", and neither updates the collection.
PromoteRefusalsWriteNothing ==
    \A p \in Procs :
        procs[p].op = "promote" =>
            /\ procs[p].why = "no such user" =>
                   /\ procs[p].pc \in {"returned", "done"}
                   /\ procs[p].ret = [NoRet EXCEPT !.err = "user not found"]
                   /\ ~procs[p].wrote
            /\ procs[p].why = "already admin" =>
                   /\ procs[p].pc \in {"returned", "done"}
                   /\ procs[p].ret = [NoRet EXCEPT !.err = "user is already an admin"]
                   /\ ~procs[p].wrote

\* C16 witness: one promote call was refused for an unknown name and another
\* for a user that is an admin
BothPromoteRefusalsSeen ==
    \E p \in Procs : \E q \in Procs :
        /\ procs[p].op = "promote" /\ procs[p].why = "no such user"
        /\ procs[q].op = "promote" /\ procs[q].why = "already admin"

\* C17: a promote call that returns without error has updated the
\* collection, and the user it returns is a stored document of that name
\* with the role admin, whatever register and promote calls run beside it.
PromoteReturnsStoredAdmin ==
    \A p \in Procs :
        (procs[p].op = "promote" /\ procs[p].pc = "returned" /\ procs[p].ret.err = "")
            => /\ procs[p].wrote
               /\ procs[p].ret.user.Username = procs[p].body.username
               /\ procs[p].ret.user.Role = RoleAdmin
               /\ \E i \in 1..Len(users) : users[i] = procs[p].ret.user

\* C17 witness: a promote call has succeeded while a register call of the
\* other caller is between its count and its insert
PromoteSucceededBesideRegister ==
    \E p \in Procs : \E q \in Procs :
        /\ procs[p].op = "promote" /\ procs[p].pc = "returned" /\ procs[p].ret.err = ""
        /\ procs[q].pc = "reg_create"

\* C18 as stated: once a store call of a register, login or promote call
\* has failed, the call is over, its error is the error of the store, and
\* it has inserted no user and changed no role.
StoreFailureFailsCleanly ==
    \A p \in Procs :
        procs[p].failed =>
            /\ procs[p].pc \in {"returned", "done"}
            /\ procs[p].ret = [NoRet EXCEPT !.err = "store unavailable"]
            /\ ~procs[p].inserted
            /\ ~procs[p].wrote

MintedTokensStayValid ==
    /\ [](\A t \in issued :
             clock < t[2].exp =>
                 /\ ValidateToken(t, clock, JWTSecret).Valid
                 /\ ValidateToken(t, clock, JWTSecret).errs = {})
    /\ []((probe.token \in issued /\ probe.secret = JWTSecret
              /\ probe.at < probe.token[2].exp) => probe.Valid)
    /\ [][probe' # probe => issued' = issued /\ clock' = clock]_vars

\* C20 witness: two tokens are held for the same user, and the older one was
\* validated with success hours after the newer one was minted
OlderTokenValidatedAfterReissue ==
    \E t \in issued : \E n \in issued :
        /\ t[2].user_id = n[2].user_id
        /\ t[2].exp < n[2].exp
        /\ probe.token = t
        /\ probe.secret = JWTSecret
        /\ n[2].iat < probe.at
        /\ probe.Valid

\* C21 as stated: a finished request that failed has the status of its
\* class: 401 for a missing or malformed header, a token that does not
\* verify or a missing role key, 403 for a role the route does not allow,
\* 409 or 404 for "username already exists", "user is already an admin" and
\* "user not found".
FailuresSurfaceInStatusClass ==
    \A p \in Procs :
        procs[p].pc = "done" =>
            /\ (/\ procs[p].route \notin PublicRoutes
                /\ \/ ~IsBearer(procs[p].header)
                   \/ ~VerifiesAt(procs[p].header[2], procs[p].authAt))
                   => procs[p].status = StatusUnauthorized
            /\ (/\ procs[p].route \in AdminRoutes \cup UserRoutes
                /\ IsBearer(procs[p].header)
                /\ VerifiesAt(procs[p].header[2], procs[p].authAt)
                /\ procs[p].header[2][2].role
                       \notin (IF procs[p].route \in AdminRoutes
                               THEN {RoleAdmin} ELSE {RoleAdmin, RoleUser}))
                   => procs[p].status = StatusForbidden
            /\ procs[p].ret.err = "username already exists"
                   => procs[p].status \in {StatusConflict, StatusNotFound}
            /\ procs[p].ret.err = "user is already an admin"
                   => procs[p].status \in {StatusConflict, StatusNotFound}
            /\ procs[p].ret.err = "user not found"
                   => procs[p].status \in {StatusConflict, StatusNotFound}

\* C22 as stated: for a secret HashPassword accepts, ComparePassword of its
\* digest succeeds with the secret itself and fails with the secret followed
\* by one more byte.
HashRoundTripAndExtensionFails ==
    (probe # NoProbe /\ probe.op = "compare") =>
        /\ probe.candidate = probe.password => probe.err = ""
        /\ probe.candidate = Append(probe.password, "x") => probe.err # ""

\* C23: no step removes a stored user or changes its id, name or digest; a
\* step changes the role of a stored user only from user to admin, and only
\* as the update of a promote call whose request passed AuthenticateToken
\* and RequireAdmin with a verifying admin token. Register and login steps
\* leave every stored user as it is.
RoleChangesOnlyByGatedPromote ==
    [][/\ Len(users') >= Len(users)
       /\ \A i \in 1..Len(users) :
              /\ users'[i].ID = users[i].ID
              /\ users'[i].Username = users[i].Username
              /\ users'[i].Password = users[i].Password
              /\ users'[i].Role # users[i].Role =>
                     /\ users[i].Role = RoleUser
                     /\ users'[i].Role = RoleAdmin
                     /\ \E p \in Procs :
                            /\ procs[p].op = "promote"
                            /\ procs[p].pc = "prom_update"
                            /\ procs'[p].wrote
                            /\ procs[p].body.username = users[i].Username
                            /\ procs[p].trace =
                                   <<"AuthenticateToken", "RequireAdmin", "PromoteUser">>
                            /\ procs[p].keys.role = RoleAdmin
                            /\ IsBearer(procs[p].header)
                            /\ VerifiesAt(procs[p].header[2], procs[p].authAt)
                            /\ procs[p].header[2][2].role = RoleAdmin]_vars

\* C23 witness: a user that registered with the role user is stored as an
\* admin
RegisteredUserNowAdmin ==
    \E i \in 1..Len(users) :
        /\ i <= Len(created)
        /\ created[i] = RoleUser
        /\ users[i].Role = RoleAdmin

\* the members whose BorrowedBooks holds the book
Holders(bookID) ==
    {m \in DOMAIN library.Members :
        \E i \in 1..Len(library.Members[m]) : library.Members[m][i] = bookID}

\* how many entries of the member's BorrowedBooks are the book
Copies(m, bookID) ==
    Cardinality({i \in 1..Len(library.Members[m]) : library.Members[m][i] = bookID})

\* C24 as stated: a book is held by at most one member at a time, and a
\* BorrowBook call of a book some member holds fails with an error.
BookHeldByAtMostOneMember ==
    \A b \in BookIDs :
        /\ Cardinality(Holders(b)) <= 1
        /\ \A m \in Holders(b) : Copies(m, b) = 1

\* C30 as stated: a book has the status Borrowed exactly when it is in
\* exactly one member's BorrowedBooks, and every book in a member's
\* BorrowedBooks is still in the library.
BorrowedIffInExactlyOneList ==
    /\ \A b \in DOMAIN library.Books :
           library.Books[b] = "Borrowed" <=>
               /\ Cardinality(Holders(b)) = 1
               /\ \A m \in Holders(b) : Copies(m, b) = 1
    /\ \A b \in BookIDs : Holders(b) # {} => b \in DOMAIN library.Books

AtMostOneCreatedAdmin ==
    Cardinality({i \in 1..Len(created) : created[i] = RoleAdmin}) <= 1

\* the login tokens there are: those clients hold and the one a login call
\* has just returned
Minted ==
    issued \cup {procs[p].ret.token : p \in {q \in Procs : procs[q].ret.token # NoToken}}

\* C27: a request to an admin-only route bearing a verifying login token with
\* the role user is answered 403 with no handler run, also when the stored
\* user of that token is an admin by now; and a login token carries the role
\* admin only if its user was an admin in the store when it was minted, so
\* for a promoted user only if a login after the promotion minted it.
OldTokenStaysUserAfterPromote ==
    /\ \A p \in Procs :
           (/\ procs[p].pc = "done"
            /\ procs[p].route \in AdminRoutes
            /\ IsBearer(procs[p].header)
            /\ procs[p].header[2] \in issued
            /\ VerifiesAt(procs[p].header[2], procs[p].authAt)
            /\ procs[p].header[2][2].role = RoleUser)
               => /\ procs[p].status = StatusForbidden
                  /\ procs[p].ran = ""
    /\ \A t \in Minted :
           t[2].role = RoleAdmin =>
               \E i \in 1..Len(users) :
                   /\ Hex(users[i].ID) = t[2].user_id
                   /\ users[i].Role = RoleAdmin

\* C27 witness: a user registered with the role user is an admin in the
\* store, and a request bearing the login token it got before, with the role
\* user, has been answered 403 on an admin-only route
OldTokenForbiddenAfterPromote ==
    \E p \in Procs : \E i \in 1..Len(users) :
        /\ procs[p].pc = "done"
        /\ procs[p].route \in AdminRoutes
        /\ IsBearer(procs[p].header)
        /\ procs[p].header[2] \in issued
        /\ VerifiesAt(procs[p].header[2], procs[p].authAt)
        /\ procs[p].header[2][2].role = RoleUser
        /\ procs[p].header[2][2].user_id = Hex(users[i].ID)
        /\ created[i] = RoleUser
        /\ users[i].Role = RoleAdmin
        /\ procs[p].status = StatusForbidden

\* C28: a login call returns a user or a token only together, without an
\* error, and only when the store holds at that moment a user of the given
\* username whose digest the given password verifies against; the user
\* returned is that stored user, and the token verifies and carries that
\* user's id, username and stored role.
LoginReturnsOnlyForStoredMatch ==
    [][\A p \in Procs :
          (procs[p].pc = "login" /\ procs'[p].pc = "returned"
              /\ (procs'[p].ret.token # NoToken \/ ~IsNoUser(procs'[p].ret.user)))
             => /\ procs'[p].ret.err = ""
                /\ procs'[p].ret.token # NoToken
                /\ \E i \in 1..Len(users) :
                       /\ users[i].Username = procs[p].body.username
                       /\ users[i].Password.key = BcryptKey(procs[p].body.password)
                       /\ procs'[p].ret.user = users[i]
                       /\ procs'[p].ret.token[2].user_id = Hex(users[i].ID)
                       /\ procs'[p].ret.token[2].username = users[i].Username
                       /\ procs'[p].ret.token[2].role = users[i].Role
                /\ VerifiesAt(procs'[p].ret.token, clock)]_vars

\* C28 witness: a login call has returned the stored user of its username
\* and a token, while another stored user has another role
LoginReturnedStoredUser ==
    \E p \in Procs : \E i, j \in 1..Len(users) :
        /\ procs[p].op = "login"
        /\ procs[p].pc = "returned"
        /\ procs[p].ret.err = ""
        /\ procs[p].ret.user = users[i]
        /\ procs[p].ret.token # NoToken
        /\ procs[p].ret.token[2].role = users[i].Role
        /\ users[j].Role # users[i].Role

\* C29 as stated: when the handler of a chain that starts with
\* AuthenticateToken runs, the context holds a user_id, a username and a role
\* that is user or admin.
HandlerBehindAuthenticateHasIdentity ==
    \A p \in Procs :
        (/\ procs[p].ran # ""
         /\ procs[p].handlers # <<>>
         /\ procs[p].handlers[1] = "AuthenticateToken")
            => /\ procs[p].keys.exists
               /\ procs[p].keys.user_id # <<>>
               /\ procs[p].keys.username # Nil
               /\ procs[p].keys.role \in {RoleAdmin, RoleUser}

====
